---- MODULE Spec2Model ----
(***************************************************************************)
(* Model of the two scripts of the repository.                             *)
(*                                                                         *)
(*   lfs_finder.py  the large-file-reference auditor: the presence cache,  *)
(*                  the probe loop over (pointer, remote) pairs, the       *)
(*                  try / except KeyboardInterrupt / finally around it and *)
(*                  the report printed after it.  Specification Spec.      *)
(*   all-git.py     the batch fetch runner: one task per repository, one   *)
(*                  retry, results awaited in enumeration order.           *)
(*                  Specification FetchSpec.                               *)
(***************************************************************************)
EXTENDS Integers, Sequences, FiniteSets, TLC

VARIABLES
    \* ---- lfs_finder.py ----
    lfs_pointers,        \* list[LfsPointer], fixed before the loop (l.41)
    ok_lfs_file,         \* .lfs_finder_cache/ok_lfs.json on disk
    ok_lfs_cache,        \* dict remote name -> set of oids (l.131)
    commits_missing_lfs, \* dict commit -> dict pointer -> list of remotes (l.141)
    idx,                 \* position of the outer loop in lfs_pointers (1-based)
    ridx,                \* position of the inner loop in remotes (1-based)
    pc,                  \* where the script is
    response,            \* status code of the response being handled, 0 if none
    exc,                 \* exception that ended the try block
    printed,             \* what the report loop printed
    run,                 \* number of the current execution of the script
    \* history of the current execution (not program state)
    loaded,              \* ok_lfs_cache as loaded at start
    probes,              \* answered requests: [ptr, remote, status]
    skipped,             \* cache-hit skips: <<idx, remote>>
    nreq,                \* number of verification requests sent
    dumped,              \* the finally block wrote the cache file
    prev,                \* how the previous execution ended and what it confirmed
    \* ---- all-git.py fetch ----
    repos,               \* what enumerate_git() yields, in order
    tasks,               \* the asyncio tasks, one per repository (l.71)
    fpc,                 \* where the fetch coroutine is
    fidx,                \* position of the await loop in tasks (1-based)
    out,                 \* what fetch printed
    ferr,                \* exception that left the fetch coroutine
    overtook,            \* history: a task finished before one created earlier
    \* ---- all-git.py log / gone / exec ----
    runner,              \* which command runs: "log", "gone" or "exec"
    srepos,              \* what enumerate_git() yields, in order
    sidx,                \* position of the for loop in srepos (1-based)
    spc,                 \* where the command is
    sout,                \* what the command printed
    serr,                \* exception that left the command
    squeried,            \* history: the git subprocesses run, [repo, returncode]
    \* ---- all-git.py enumerate_git ----
    gitkind,             \* the tree: what each directory holds under the name .git
    pending,             \* matches of rglob(".git") the walk has not produced yet
    yielded,             \* what the generator yielded so far
    epc                  \* where the generator is

lfsvars == <<lfs_pointers, ok_lfs_file, ok_lfs_cache, commits_missing_lfs, idx, ridx,
             pc, response, exc, printed, run, loaded, probes, skipped, nreq, dumped,
             prev>>

fetchvars == <<repos, tasks, fpc, fidx, out, ferr, overtook>>

seqvars == <<runner, srepos, sidx, spc, sout, serr, squeried>>

enumvars == <<gitkind, pending, yielded, epc>>

vars == <<lfsvars, fetchvars, seqvars, enumvars>>

-----------------------------------------------------------------------------
(* Bounds and inputs *)

MaxPtrs == 2
MaxRuns == 2
MaxRepos == 2
MaxSeqRepos == 3

Names == {"a", "b"}
Oids == {"h1", "h2"}
Commits == <<"c1", "c2">>

\* The remotes configured in the repository (git remote), in order.
remotes == <<"A", "B">>
\* Names a cache file may hold: the configured ones and one no longer configured.
RemoteNames == {"A", "B", "old"}

\* HTTP statuses the verification endpoint answers with.
Statuses == {200, 404, 410}

Range(s) == {s[i] : i \in DOMAIN s}

RECURSIVE SeqsUpTo(_, _)
SeqsUpTo(S, n) ==
    IF n = 0 THEN {<<>>}
    ELSE LET shorter == SeqsUpTo(S, n - 1)
         IN  shorter \cup {Append(s, x) : s \in {t \in shorter : Len(t) = n - 1}, x \in S}

-----------------------------------------------------------------------------
(* lfs_finder.py: data *)

\* LfsPointer: a dataclass, so equality is field-wise; oid_type is always the
\* same tag and size is a function of the content, hence of oid.
LfsPointer(name, oid) == [name |-> name, oid |-> oid]

\* The repository's history: which oid the pointer file `name` holds at each commit.
RepoHistory ==
    [c \in Range(Commits) |->
        IF c = "c1" THEN [a |-> "h1", b |-> "h1"] ELSE [a |-> "h2", b |-> "h1"]]

\* get_commits: the commits whose pointer file `ptr.name` carries "oid <type>:<oid>",
\* in rev-list order.
RECURSIVE GrepRevs(_, _)
GrepRevs(ptr, revs) ==
    IF revs = <<>> THEN <<>>
    ELSE (IF RepoHistory[Head(revs)][ptr.name] = ptr.oid THEN <<Head(revs)>> ELSE <<>>)
         \o GrepRevs(ptr, Tail(revs))

get_commits(ptr) == GrepRevs(ptr, Commits)

\* git lfs ls-files --all lists the pointers found in the history.
TrackedPointers ==
    {LfsPointer(n, o) : n \in Names, o \in Oids} \cap
    {LfsPointer(n, RepoHistory[c][n]) : n \in Names, c \in Range(Commits)}

EmptyDict == [k \in {} |-> {}]

\* dict.get(key, set())
DictGet(d, k) == IF k \in DOMAIN d THEN d[k] ELSE {}

\* Mutant of CacheAdd: the remote's set is replaced, not extended.
CacheAdd_Replace(cache, remote, oid) ==
    [k \in DOMAIN cache \cup {remote} |-> IF k = remote THEN {oid} ELSE cache[k]]

\* ok_lfs_cache.setdefault(remote, set()).add(oid)
CacheAdd(cache, remote, oid) ==
    [k \in DOMAIN cache \cup {remote} |->
        IF k = remote THEN DictGet(cache, remote) \cup {oid} ELSE cache[k]]

\* list(v) for a set v: its elements once each, in some order.
RECURSIVE ListOf(_)
ListOf(S) ==
    IF S = {} THEN <<>>
    ELSE LET x == CHOOSE y \in S : TRUE IN <<x>> \o ListOf(S \ {x})

NoFile == [exists |-> FALSE, data |-> EmptyDict]

\* Mutant of DumpCache: the sets are not converted, every remote is written with
\* an empty list.
DumpCache_KeysOnly(cache) ==
    [exists |-> TRUE, data |-> [k \in DOMAIN cache |-> <<>>]]

\* json.dump({k: list(v) for k, v in ok_lfs_cache.items()}, fp)
DumpCache(cache) ==
    [exists |-> TRUE, data |-> [k \in DOMAIN cache |-> ListOf(cache[k])]]

\* if ok_lfs_cachepath.exists(): ok_lfs_cache[k] = set(v) for k, v in json.load(fp)
LoadCache(file) ==
    IF file.exists THEN [k \in DOMAIN file.data |-> Range(file.data[k])] ELSE EmptyDict

\* commits_missing_lfs.setdefault(commit, {}).setdefault(ptr, []).append(remote)
ReportAppend(report, commit, ptr, remote) ==
    LET ptrs == IF commit \in DOMAIN report THEN report[commit] ELSE EmptyDict
        old  == IF ptr \in DOMAIN ptrs THEN ptrs[ptr] ELSE <<>>
        new  == [p \in DOMAIN ptrs \cup {ptr} |->
                    IF p = ptr THEN Append(old, remote) ELSE ptrs[p]]
    IN  [c \in DOMAIN report \cup {commit} |-> IF c = commit THEN new ELSE report[c]]

\* for commit in get_commits(ptr): ... .append(remote)
RECURSIVE ReportAppendAll(_, _, _, _)
ReportAppendAll(report, commits, ptr, remote) ==
    IF commits = <<>> THEN report
    ELSE ReportAppendAll(ReportAppend(report, Head(commits), ptr, remote),
                         Tail(commits), ptr, remote)

\* Cache files a run may find at start.
InitialFiles ==
    {NoFile} \cup
    {[exists |-> TRUE, data |-> d] :
        d \in {EmptyDict,
               [k \in {"A"} |-> <<"h1">>],
               [k \in {"A", "old"} |-> IF k = "A" THEN <<"h2", "h1">> ELSE <<"h1">>],
               [k \in {"B", "old"} |-> IF k = "B" THEN <<"h1">> ELSE <<>>]}}

-----------------------------------------------------------------------------
(* lfs_finder.py: the script, from the cache load to the report *)

\* The (pointer, remote) pair the loops are at.
Ptr == lfs_pointers[idx]
Remote == remotes[ridx]
InLoop == pc = "loop" /\ idx <= Len(lfs_pointers)

\* The position after the current pair: next remote, or next pointer's first remote.
NextIdx == IF ridx < Len(remotes) THEN idx ELSE idx + 1
NextRidx == IF ridx < Len(remotes) THEN ridx + 1 ELSE 1

\* Mutant of CacheHit: the cache is searched for the pointer's name, not its hash.
CacheHit_ByName(cache, ptr, remote) == ptr.name \in DictGet(cache, remote)

\* if ptr.oid in ok_lfs_cache.get(remote, set())
CacheHit(cache, ptr, remote) == ptr.oid \in DictGet(cache, remote)

\* response.raise_for_status(): raises HTTPError for a 4xx or 5xx status
RaisesForStatus(status) == status >= 400

\* Mutant of Caught: the clause reads `except Exception`, which does not cover
\* KeyboardInterrupt.
Caught_ExceptionOnly(e) == e \in {"RequestException", "HTTPError", "CalledProcessError"}

\* except KeyboardInterrupt: pass
Caught(e) == e = "KeyboardInterrupt"

LfsInit ==
    /\ lfs_pointers \in SeqsUpTo(TrackedPointers, MaxPtrs)
    /\ ok_lfs_file \in InitialFiles
    /\ ok_lfs_cache = LoadCache(ok_lfs_file)
    /\ loaded = LoadCache(ok_lfs_file)
    /\ commits_missing_lfs = EmptyDict
    /\ idx = 1
    /\ ridx = 1
    /\ pc = "loop"
    /\ response = 0
    /\ exc = "none"
    /\ printed = [done |-> FALSE, report |-> EmptyDict, lines |-> EmptyDict]
    /\ run = 1
    /\ probes = {}
    /\ skipped = {}
    /\ nreq = 0
    /\ dumped = FALSE
    /\ prev = [outcome |-> "none", ok200 |-> {}]

\* l.153-154: the hash is in the cache for this remote: continue
Skip ==
    /\ InLoop
    /\ CacheHit(ok_lfs_cache, Ptr, Remote)
    /\ idx' = NextIdx
    /\ ridx' = NextRidx
    /\ skipped' = skipped \cup {<<idx, Remote>>}
    /\ UNCHANGED <<lfs_pointers, ok_lfs_file, ok_lfs_cache, commits_missing_lfs, pc,
                   response, exc, printed, run, loaded, probes, nreq, dumped, prev>>

\* l.155-161: session.post(...) is sent and the script blocks on the answer
SendRequest ==
    /\ InLoop
    /\ ~CacheHit(ok_lfs_cache, Ptr, Remote)
    /\ pc' = "post"
    /\ nreq' = nreq + 1
    /\ UNCHANGED <<lfs_pointers, ok_lfs_file, ok_lfs_cache, commits_missing_lfs, idx,
                   ridx, response, exc, printed, run, loaded, probes, skipped, dumped,
                   prev>>

\* Mutant of HandleStatus: a 200 answer is not recorded in the cache at once.
HandleStatus_Batched(status) ==
    IF status # 200
    THEN /\ pc' = "commits"
         /\ response' = status
         /\ UNCHANGED <<ok_lfs_cache, idx, ridx, exc>>
    ELSE /\ idx' = NextIdx
         /\ ridx' = NextRidx
         /\ pc' = "loop"
         /\ UNCHANGED <<ok_lfs_cache, response, exc>>

\* Mutant of HandleStatus: every answer other than 404 is taken as confirming
\* the object.
HandleStatus_CacheUnlessNotFound(status) ==
    IF status # 404
    THEN /\ ok_lfs_cache' = CacheAdd(ok_lfs_cache, Remote, Ptr.oid)
         /\ idx' = NextIdx
         /\ ridx' = NextRidx
         /\ pc' = "loop"
         /\ UNCHANGED <<response, exc>>
    ELSE /\ pc' = "commits"
         /\ response' = status
         /\ UNCHANGED <<ok_lfs_cache, idx, ridx, exc>>

\* l.162-174: the dispatch on response.status_code
HandleStatus(status) ==
    IF status # 200
    THEN \* print the URL and status, then look the commits up
         /\ pc' = "commits"
         /\ response' = status
         /\ UNCHANGED <<ok_lfs_cache, idx, ridx, exc>>
    ELSE IF status # 404
    THEN /\ ok_lfs_cache' = CacheAdd(ok_lfs_cache, Remote, Ptr.oid)
         /\ idx' = NextIdx
         /\ ridx' = NextRidx
         /\ pc' = "loop"
         /\ UNCHANGED <<response, exc>>
    ELSE IF RaisesForStatus(status)
    THEN /\ exc' = "HTTPError"
         /\ pc' = "finally"
         /\ UNCHANGED <<ok_lfs_cache, idx, ridx, response>>
    ELSE /\ idx' = NextIdx
         /\ ridx' = NextRidx
         /\ pc' = "loop"
         /\ UNCHANGED <<ok_lfs_cache, response, exc>>

\* the endpoint answers the request with some status
Respond ==
    /\ pc = "post"
    /\ \E status \in Statuses :
        /\ HandleStatus(status)
        /\ probes' = probes \cup {[ptr |-> Ptr, remote |-> Remote, status |-> status]}
    /\ UNCHANGED <<lfs_pointers, ok_lfs_file, commits_missing_lfs, printed, run, loaded,
                   skipped, nreq, dumped, prev>>

\* session.post raises (connection error, timeout)
PostRaises ==
    /\ pc = "post"
    /\ exc' = "RequestException"
    /\ pc' = "finally"
    /\ UNCHANGED <<lfs_pointers, ok_lfs_file, ok_lfs_cache, commits_missing_lfs, idx,
                   ridx, response, printed, run, loaded, probes, skipped, nreq, dumped,
                   prev>>

\* l.167-170: every commit referencing the pointer gets the remote appended
RecordMissing ==
    /\ pc = "commits"
    /\ commits_missing_lfs' =
           ReportAppendAll(commits_missing_lfs, get_commits(Ptr), Ptr, Remote)
    /\ idx' = NextIdx
    /\ ridx' = NextRidx
    /\ pc' = "loop"
    /\ response' = 0
    /\ UNCHANGED <<lfs_pointers, ok_lfs_file, ok_lfs_cache, exc, printed, run, loaded,
                   probes, skipped, nreq, dumped, prev>>

\* a git subprocess of get_commits exits non-zero: check_output raises
GetCommitsRaises ==
    /\ pc = "commits"
    /\ exc' = "CalledProcessError"
    /\ pc' = "finally"
    /\ UNCHANGED <<lfs_pointers, ok_lfs_file, ok_lfs_cache, commits_missing_lfs, idx,
                   ridx, response, printed, run, loaded, probes, skipped, nreq, dumped,
                   prev>>

\* the operator cancels while the try block runs
Interrupt ==
    /\ pc \in {"loop", "post", "commits"}
    /\ exc' = "KeyboardInterrupt"
    /\ pc' = "finally"
    /\ UNCHANGED <<lfs_pointers, ok_lfs_file, ok_lfs_cache, commits_missing_lfs, idx,
                   ridx, response, printed, run, loaded, probes, skipped, nreq, dumped,
                   prev>>

\* the for loop over lfs_pointers is exhausted
LoopEnd ==
    /\ pc = "loop"
    /\ idx > Len(lfs_pointers)
    /\ pc' = "finally"
    /\ UNCHANGED <<lfs_pointers, ok_lfs_file, ok_lfs_cache, commits_missing_lfs, idx,
                   ridx, response, exc, printed, run, loaded, probes, skipped, nreq,
                   dumped, prev>>

\* Mutant of AfterFinally: every exception is swallowed, as with a bare except.
AfterFinally_Swallow(e) == "report"

\* where the script goes after the finally block: on, or out with the exception
AfterFinally(e) == IF e = "none" \/ Caught(e) THEN "report" ELSE "aborted"

\* Mutant of Finally: the dump sits after the try statement instead of in its
\* finally clause, so an exception that propagates skips it.
Finally_DumpAfterTry ==
    /\ pc = "finally"
    /\ ok_lfs_file' = IF exc = "none" \/ Caught(exc)
                      THEN DumpCache(ok_lfs_cache) ELSE ok_lfs_file
    /\ dumped' = (exc = "none" \/ Caught(exc))
    /\ pc' = AfterFinally(exc)
    /\ UNCHANGED <<lfs_pointers, ok_lfs_cache, commits_missing_lfs, idx, ridx, response,
                   exc, printed, run, loaded, probes, skipped, nreq, prev>>

\* l.176-181: except KeyboardInterrupt: pass; finally: dump the cache
Finally ==
    /\ pc = "finally"
    /\ ok_lfs_file' = DumpCache(ok_lfs_cache)
    /\ dumped' = TRUE
    /\ pc' = AfterFinally(exc)
    /\ UNCHANGED <<lfs_pointers, ok_lfs_cache, commits_missing_lfs, idx, ridx, response,
                   exc, printed, run, loaded, probes, skipped, nreq, prev>>

\* l.184: all_remotes = set(r for r, _, _ in remotes)
all_remotes == Range(remotes)

\* Mutant of Annotation: the lists are compared by length, not as sets.
Annotation_ByLength(recorded) ==
    IF Len(remotes) # Len(recorded)
    THEN [annotated |-> TRUE, names |-> recorded]
    ELSE [annotated |-> FALSE, names |-> <<>>]

\* l.194-195: what follows "name: oid" on a pointer's line; the names are
\* printed, in recorded order, when the recorded remotes are not all of them
Annotation(recorded) ==
    IF all_remotes # Range(recorded)
    THEN [annotated |-> TRUE, names |-> recorded]
    ELSE [annotated |-> FALSE, names |-> <<>>]

\* l.186-195: one line per pointer under each commit
ReportLines(report) ==
    [c \in DOMAIN report |-> [p \in DOMAIN report[c] |-> Annotation(report[c][p])]]

\* l.184-199: the report loop
PrintReport ==
    /\ pc = "report"
    /\ printed' = [done |-> TRUE, report |-> commits_missing_lfs,
                   lines |-> ReportLines(commits_missing_lfs)]
    /\ pc' = "done"
    /\ UNCHANGED <<lfs_pointers, ok_lfs_file, ok_lfs_cache, commits_missing_lfs, idx,
                   ridx, response, exc, run, loaded, probes, skipped, nreq, dumped,
                   prev>>

Outcome ==
    IF pc = "aborted" THEN "aborted"
    ELSE IF exc = "KeyboardInterrupt" THEN "interrupted" ELSE "complete"

\* the script is started again: module level runs from the top (l.131-141);
\* the pointer list comes from the cached ls-files.json (l.32-60)
Rerun ==
    /\ pc \in {"done", "aborted"}
    /\ run < MaxRuns
    /\ run' = run + 1
    /\ ok_lfs_cache' = LoadCache(ok_lfs_file)
    /\ loaded' = LoadCache(ok_lfs_file)
    /\ commits_missing_lfs' = EmptyDict
    /\ idx' = 1
    /\ ridx' = 1
    /\ pc' = "loop"
    /\ response' = 0
    /\ exc' = "none"
    /\ printed' = [done |-> FALSE, report |-> EmptyDict, lines |-> EmptyDict]
    /\ probes' = {}
    /\ skipped' = {}
    /\ nreq' = 0
    /\ dumped' = FALSE
    /\ prev' = [outcome |-> Outcome,
                ok200 |-> {<<p.ptr, p.remote>> : p \in {q \in probes : q.status = 200}}]
    /\ UNCHANGED <<lfs_pointers, ok_lfs_file>>

-----------------------------------------------------------------------------
(* all-git.py: fetch *)

\* Exit statuses of git fetch: success, failure, killed by a signal.
ExitCodes == {0, 1, -15}

\* Captured stderr is a byte string. A byte here is the word Fetching taken as a
\* unit, another word character, a blank, a line feed, or a byte that is not UTF-8.
Space == " "
LF == "\n"
BadByte == "0xff"

StderrSamples ==
    { <<>>,
      <<"Fetching", Space, "w", LF>>,
      <<"w", Space, "Fetching", LF>>,
      <<"Fetching", Space, "w", LF, "w", LF>>,
      <<LF>>,
      <<"Fetching", LF, Space, LF>>,
      <<"w", LF, LF>>,
      <<Space, "Fetching", LF>>,
      <<"Fetching", "w", LF>>,
      <<BadByte>> }

\* bytes.decode(): raises UnicodeDecodeError on a byte that is not UTF-8
Decodable(bytes) == BadByte \notin Range(bytes)

\* str.splitlines(keepends=False)
RECURSIVE SplitLinesFrom(_, _)
SplitLinesFrom(s, cur) ==
    IF s = <<>> THEN (IF cur = <<>> THEN <<>> ELSE <<cur>>)
    ELSE IF Head(s) = LF THEN <<cur>> \o SplitLinesFrom(Tail(s), <<>>)
    ELSE SplitLinesFrom(Tail(s), Append(cur, Head(s)))

splitlines(s) == SplitLinesFrom(s, <<>>)

\* str.split(): the maximal runs of non-whitespace characters
RECURSIVE SplitFrom(_, _)
SplitFrom(s, cur) ==
    IF s = <<>> THEN (IF cur = <<>> THEN <<>> ELSE <<cur>>)
    ELSE IF Head(s) = Space
    THEN (IF cur = <<>> THEN <<>> ELSE <<cur>>) \o SplitFrom(Tail(s), <<>>)
    ELSE SplitFrom(Tail(s), Append(cur, Head(s)))

split(s) == SplitFrom(s, <<>>)

\* any(e.split()[0] != "Fetching" for e in lines): any() stops at the first true
\* element; e.split()[0] raises IndexError when the line has no token.
RECURSIVE AnyNotFetching(_)
AnyNotFetching(lines) ==
    IF lines = <<>> THEN "False"
    ELSE LET tokens == split(Head(lines))
         IN  IF tokens = <<>> THEN "IndexError"
             ELSE IF tokens[1] # <<"Fetching">> THEN "True"
             ELSE AnyNotFetching(Tail(lines))

\* Mutant of NeedsRetry: the test reads `returncode > 0`, which misses a fetch
\* killed by a signal.
NeedsRetry_Positive(returncode) == returncode > 0

\* l.67: if returncode != 0
NeedsRetry(returncode) == returncode # 0

\* l.83: if returncode
Truthy(returncode) == returncode # 0

NoTask == [state |-> "none", attempts |-> <<>>, returncode |-> 0, stderr |-> <<>>]

Banner(i) == [kind |-> "banner", repo |-> i]
FailureBlock(i, returncode, stderr) ==
    [kind |-> "failure", repo |-> i, returncode |-> returncode, stderr |-> stderr]
StderrDump(i, stderr) == [kind |-> "stderr", repo |-> i, stderr |-> stderr]

FetchInit ==
    /\ repos \in {[i \in 1..n |-> i] : n \in 0..MaxRepos}
    /\ tasks = [i \in DOMAIN repos |-> NoTask]
    /\ fpc = "create"
    /\ fidx = 1
    /\ out = <<>>
    /\ ferr = "none"
    /\ overtook = FALSE

\* Mutant of TaskAt: the await loop walks the task list backwards.
TaskAt_Reversed(k) == Len(tasks) + 1 - k

\* l.76: for idx, (repo, task) in enumerate(tasks): the k-th iteration takes the
\* k-th task created, that of the k-th repository enumerated
TaskAt(k) == k

\* l.71-74: asyncio.create_task for the next repository of the enumeration
CreateTask ==
    /\ fpc = "create"
    /\ fidx <= Len(repos)
    /\ tasks' = [tasks EXCEPT ![fidx].state = "created"]
    /\ fidx' = fidx + 1
    /\ UNCHANGED <<repos, fpc, out, ferr, overtook>>

\* l.76-79: the list is built; the await loop starts and prints its first banner
EnterLoop ==
    /\ fpc = "create"
    /\ fidx > Len(repos)
    /\ fpc' = "await"
    /\ fidx' = 1
    /\ out' = IF Len(repos) >= 1 THEN Append(out, Banner(TaskAt(1))) ELSE out
    /\ UNCHANGED <<repos, tasks, ferr, overtook>>

\* The event loop runs the tasks once fetch has reached its first `await task`.
\* It runs the first step of every task, in creation order, before it polls for
\* any subprocess exit.
LoopRunning == fpc = "await"

\* l.66, l.55-61: the task starts and spawns its first git fetch
StartTask(i) ==
    /\ LoopRunning
    /\ tasks[i].state = "created"
    /\ \A j \in 1..(i - 1) : tasks[j].state # "created"
    /\ tasks' = [tasks EXCEPT ![i].state = "running"]
    /\ UNCHANGED <<repos, fpc, fidx, out, ferr, overtook>>

\* l.62-69: the subprocess of the task exits; _fetch returns, and _task either
\* runs _fetch again or returns what the last run gave
FetchReturns(i, returncode, stderr) ==
    LET attempts == Append(tasks[i].attempts, returncode)
    IN  IF Len(attempts) = 1 /\ NeedsRetry(returncode)
        THEN [state |-> "running", attempts |-> attempts,
              returncode |-> 0, stderr |-> <<>>]
        ELSE [state |-> "done", attempts |-> attempts,
              returncode |-> returncode, stderr |-> stderr]

\* Mutant of ProcessExits: the fetches run one after the other, as if each task
\* were awaited before the next one is started.
ProcessExits_Sequential(i) ==
    /\ LoopRunning
    /\ \A j \in DOMAIN tasks : tasks[j].state # "created"
    /\ \A j \in 1..(i - 1) : tasks[j].state = "done"
    /\ tasks[i].state = "running"
    /\ \E returncode \in ExitCodes, stderr \in StderrSamples :
           tasks' = [tasks EXCEPT ![i] = FetchReturns(i, returncode, stderr)]
    /\ overtook' = overtook
    /\ UNCHANGED <<repos, fpc, fidx, out, ferr>>

ProcessExits(i) ==
    /\ LoopRunning
    /\ \A j \in DOMAIN tasks : tasks[j].state # "created"
    /\ tasks[i].state = "running"
    /\ \E returncode \in ExitCodes, stderr \in StderrSamples :
           tasks' = [tasks EXCEPT ![i] = FetchReturns(i, returncode, stderr)]
    /\ overtook' = (overtook \/ (/\ tasks'[i].state = "done"
                                 /\ \E j \in 1..(i - 1) : tasks[j].state # "done"))
    /\ UNCHANGED <<repos, fpc, fidx, out, ferr>>

\* l.83-88: the failure block
ReportFailure(i, returncode, stderr) ==
    IF Truthy(returncode) THEN <<FailureBlock(i, returncode, stderr)>> ELSE <<>>

\* l.81-92 and the banner of the next iteration: the awaited task is done
Report ==
    /\ fpc = "await"
    /\ fidx <= Len(tasks)
    /\ tasks[TaskAt(fidx)].state = "done"
    /\ LET repo       == TaskAt(fidx)
           returncode == tasks[repo].returncode
           stderr_b   == tasks[repo].stderr
       IN  IF ~Decodable(stderr_b)
           THEN /\ fpc' = "raised"
                /\ ferr' = "UnicodeDecodeError"
                /\ UNCHANGED <<fidx, out>>
           ELSE LET failure == ReportFailure(repo, returncode, stderr_b)
                    anomalous == AnyNotFetching(splitlines(stderr_b))
                IN  IF anomalous = "IndexError"
                    THEN /\ fpc' = "raised"
                         /\ ferr' = "IndexError"
                         /\ out' = out \o failure
                         /\ UNCHANGED fidx
                    ELSE /\ out' = out \o failure
                                   \o (IF anomalous = "True"
                                       THEN <<StderrDump(repo, stderr_b)>> ELSE <<>>)
                                   \o (IF fidx < Len(tasks)
                                       THEN <<Banner(TaskAt(fidx + 1))>> ELSE <<>>)
                         /\ fidx' = fidx + 1
                         /\ UNCHANGED <<fpc, ferr>>
    /\ UNCHANGED <<repos, tasks, overtook>>

\* l.94: the loop is over; the banner line is blanked and fetch returns
FetchReturn ==
    /\ fpc = "await"
    /\ fidx > Len(tasks)
    /\ fpc' = "done"
    /\ UNCHANGED <<repos, tasks, fidx, out, ferr, overtook>>

-----------------------------------------------------------------------------
(* all-git.py: print_git_logs, gone, exec *)

\* Captured stdout is a string. A character here is a word character, the text
\* ": gone] " taken as a unit, a blank or a line feed.
GoneMarker == ": gone] "

StdoutSamples ==
    { <<>>,
      <<Space, LF>>,
      <<"t", LF>>,
      <<LF, "t", Space>>,
      <<Space, "t", GoneMarker, "t", LF, "t", LF>> }

Whitespace == {Space, LF}

\* str.strip(): leading and trailing whitespace removed
RECURSIVE lstrip(_)
lstrip(s) == IF s # <<>> /\ Head(s) \in Whitespace THEN lstrip(Tail(s)) ELSE s

RECURSIVE rstrip(_)
rstrip(s) ==
    IF s # <<>> /\ s[Len(s)] \in Whitespace THEN rstrip(SubSeq(s, 1, Len(s) - 1)) ELSE s

strip(s) == rstrip(lstrip(s))

\* [b for b in branches if ': gone] ' in b]
RECURSIVE GoneBranches(_)
GoneBranches(lines) ==
    IF lines = <<>> THEN <<>>
    ELSE (IF GoneMarker \in Range(Head(lines)) THEN <<Head(lines)>> ELSE <<>>)
         \o GoneBranches(Tail(lines))

SeqBanner(i) == [kind |-> "banner", repo |-> i, text |-> <<>>]
SeqText(i, text) == [kind |-> "text", repo |-> i, text |-> text]

\* What is printed for a repository before its git subprocess runs
\* (exec: l.171-173; log and gone print nothing before).
PrintedBefore(cmd, i) == IF cmd = "exec" THEN <<SeqBanner(i)>> ELSE <<>>

\* What is printed for a repository once its git subprocess has exited with 0
\* (log: l.119-122; gone: l.153-165; exec: l.182-184).
PrintedAfter(cmd, i, stdout) ==
    IF cmd = "log"
    THEN IF strip(stdout) # <<>> THEN <<SeqBanner(i), SeqText(i, strip(stdout))>> ELSE <<>>
    ELSE IF cmd = "gone"
    THEN LET branches == GoneBranches(splitlines(strip(stdout)))
         IN  IF branches # <<>>
             THEN <<SeqBanner(i)>> \o [k \in DOMAIN branches |-> SeqText(i, branches[k])]
             ELSE <<>>
    ELSE IF strip(stdout) # <<>> THEN <<SeqText(i, strip(stdout))>> ELSE <<>>

\* Mutant of Fatal: the exit status is not checked (subprocess.run without
\* check_returncode, subprocess.run in place of check_output).
Fatal_Ignored(returncode) == FALSE

\* process.check_returncode() (l.118, l.181) and subprocess.check_output (l.153):
\* CalledProcessError on a non-zero exit status
Fatal(returncode) == returncode # 0

SeqInit ==
    /\ runner \in {"log", "gone", "exec"}
    /\ srepos \in {[i \in 1..n |-> i] : n \in 0..MaxSeqRepos}
    /\ sidx = 1
    /\ spc = "loop"
    /\ sout = <<>>
    /\ serr = "none"
    /\ squeried = <<>>

\* one iteration of `for repo in enumerate_git()`: the git subprocess runs to its
\* end; a non-zero exit status raises, otherwise its output is printed
RunCommand ==
    /\ spc = "loop"
    /\ sidx <= Len(srepos)
    /\ \E returncode \in ExitCodes, stdout \in StdoutSamples :
           /\ squeried' = Append(squeried, [repo |-> sidx, returncode |-> returncode])
           /\ IF Fatal(returncode)
              THEN /\ spc' = "raised"
                   /\ serr' = "CalledProcessError"
                   /\ sout' = sout \o PrintedBefore(runner, sidx)
                   /\ UNCHANGED sidx
              ELSE /\ sout' = sout \o PrintedBefore(runner, sidx)
                                   \o PrintedAfter(runner, sidx, stdout)
                   /\ sidx' = sidx + 1
                   /\ UNCHANGED <<spc, serr>>
    /\ UNCHANGED <<runner, srepos>>

\* the for loop is exhausted and the command returns
SeqReturn ==
    /\ spc = "loop"
    /\ sidx > Len(srepos)
    /\ spc' = "done"
    /\ UNCHANGED <<runner, srepos, sidx, sout, serr, squeried>>

-----------------------------------------------------------------------------
(* all-git.py: enumerate_git *)

\* The directories at and below the working directory, as relative paths; <<>> is
\* Path(), the working directory itself.
cwd == <<>>
Dirs == {<<>>, <<"a">>, <<"b">>, <<"a", "c">>}

\* os.getcwd(), which Path.absolute() prepends
CwdAbsolute == <<"/", "work">>

DotGit == ".git"

\* p.parent
Parent(p) == SubSeq(p, 1, Len(p) - 1)

\* cwd.rglob(".git"): every entry named .git at any depth, file or directory
RglobDotGit(tree) == {Append(d, DotGit) : d \in {e \in DOMAIN tree : tree[e] # "none"}}

\* Mutant of is_dir: the test reads p.exists().
is_dir_Exists(tree, p) == tree[Parent(p)] # "none"

\* p.is_dir()
is_dir(tree, p) == tree[Parent(p)] = "dir"

\* l.40-43: the working directory's own match is yielded absolute, the others
\* relative to the working directory
YieldOf(p) ==
    IF Parent(p) = cwd THEN CwdAbsolute \o Parent(p) ELSE Parent(p)

EnumInit ==
    /\ gitkind \in [Dirs -> {"none", "file", "dir"}]
    /\ pending = RglobDotGit(gitkind)
    /\ yielded = <<>>
    /\ epc = "walk"

\* l.38-43: the walk produces its next match, in whatever order it walks
Visit(p) ==
    /\ epc = "walk"
    /\ p \in pending
    /\ pending' = pending \ {p}
    /\ yielded' = IF is_dir(gitkind, p) THEN Append(yielded, YieldOf(p)) ELSE yielded
    /\ UNCHANGED <<gitkind, epc>>

\* the walk is exhausted: the generator returns
EnumReturn ==
    /\ epc = "walk"
    /\ pending = {}
    /\ epc' = "done"
    /\ UNCHANGED <<gitkind, pending, yielded>>

-----------------------------------------------------------------------------
(* Specifications: one per command; the other commands are not running *)

LfsIdle ==
    /\ lfs_pointers = <<>>
    /\ ok_lfs_file = NoFile
    /\ ok_lfs_cache = EmptyDict
    /\ loaded = EmptyDict
    /\ commits_missing_lfs = EmptyDict
    /\ idx = 1
    /\ ridx = 1
    /\ pc = "idle"
    /\ response = 0
    /\ exc = "none"
    /\ printed = [done |-> FALSE, report |-> EmptyDict, lines |-> EmptyDict]
    /\ run = 1
    /\ probes = {}
    /\ skipped = {}
    /\ nreq = 0
    /\ dumped = FALSE
    /\ prev = [outcome |-> "none", ok200 |-> {}]

FetchIdle ==
    /\ repos = <<>>
    /\ tasks = <<>>
    /\ fpc = "idle"
    /\ fidx = 1
    /\ out = <<>>
    /\ ferr = "none"
    /\ overtook = FALSE

SeqIdle ==
    /\ runner = "none"
    /\ srepos = <<>>
    /\ sidx = 1
    /\ spc = "idle"
    /\ sout = <<>>
    /\ serr = "none"
    /\ squeried = <<>>

EnumIdle ==
    /\ gitkind = [d \in Dirs |-> "none"]
    /\ pending = {}
    /\ yielded = <<>>
    /\ epc = "idle"

Init == LfsInit /\ FetchIdle /\ SeqIdle /\ EnumIdle
Next ==
    \/ Skip /\ UNCHANGED <<fetchvars, seqvars, enumvars>>
    \/ SendRequest /\ UNCHANGED <<fetchvars, seqvars, enumvars>>
    \/ Respond /\ UNCHANGED <<fetchvars, seqvars, enumvars>>
    \/ PostRaises /\ UNCHANGED <<fetchvars, seqvars, enumvars>>
    \/ RecordMissing /\ UNCHANGED <<fetchvars, seqvars, enumvars>>
    \/ GetCommitsRaises /\ UNCHANGED <<fetchvars, seqvars, enumvars>>
    \/ Interrupt /\ UNCHANGED <<fetchvars, seqvars, enumvars>>
    \/ LoopEnd /\ UNCHANGED <<fetchvars, seqvars, enumvars>>
    \/ Finally /\ UNCHANGED <<fetchvars, seqvars, enumvars>>
    \/ PrintReport /\ UNCHANGED <<fetchvars, seqvars, enumvars>>
    \/ Rerun /\ UNCHANGED <<fetchvars, seqvars, enumvars>>
Spec == Init /\ [][Next]_vars

FetchSpecInit == FetchInit /\ LfsIdle /\ SeqIdle /\ EnumIdle
FetchSpecNext ==
    \/ CreateTask /\ UNCHANGED <<lfsvars, seqvars, enumvars>>
    \/ EnterLoop /\ UNCHANGED <<lfsvars, seqvars, enumvars>>
    \/ \E i \in DOMAIN tasks : StartTask(i) /\ UNCHANGED <<lfsvars, seqvars, enumvars>>
    \/ \E i \in DOMAIN tasks : ProcessExits(i) /\ UNCHANGED <<lfsvars, seqvars, enumvars>>
    \/ Report /\ UNCHANGED <<lfsvars, seqvars, enumvars>>
    \/ FetchReturn /\ UNCHANGED <<lfsvars, seqvars, enumvars>>
FetchSpec == FetchSpecInit /\ [][FetchSpecNext]_vars

SeqSpecInit == SeqInit /\ LfsIdle /\ FetchIdle /\ EnumIdle
SeqSpecNext ==
    \/ RunCommand /\ UNCHANGED <<lfsvars, fetchvars, enumvars>>
    \/ SeqReturn /\ UNCHANGED <<lfsvars, fetchvars, enumvars>>
SeqSpec == SeqSpecInit /\ [][SeqSpecNext]_vars

EnumSpecInit == EnumInit /\ LfsIdle /\ FetchIdle /\ SeqIdle
EnumSpecNext ==
    \/ \E p \in pending : Visit(p) /\ UNCHANGED <<lfsvars, fetchvars, seqvars>>
    \/ EnumReturn /\ UNCHANGED <<lfsvars, fetchvars, seqvars>>
EnumSpec == EnumSpecInit /\ [][EnumSpecNext]_vars

-----------------------------------------------------------------------------
(* Properties of the auditor (lfs_finder.py), checked under Spec *)

\* The list recorded for (commit, ptr) in the missing-reference report.
Recorded(commit, ptr) ==
    IF commit \in DOMAIN commits_missing_lfs /\ ptr \in DOMAIN commits_missing_lfs[commit]
    THEN commits_missing_lfs[commit][ptr] ELSE <<>>

Count(x, s) == Cardinality({i \in DOMAIN s : s[i] = x})

\* The probes answered by the step being taken.
Answered == probes' \ probes

\* The hashes the endpoint of `remote` confirmed with 200 in this execution.
Confirmed(remote) ==
    {p.ptr.oid : p \in {q \in probes : q.remote = remote /\ q.status = 200}}

\* What the cache file on disk holds for `remote`.
OnDisk(remote) ==
    IF ok_lfs_file.exists /\ remote \in DOMAIN ok_lfs_file.data
    THEN Range(ok_lfs_file.data[remote]) ELSE {}

\* C1: a 404 answer for a (pointer, remote) pair ends the probe in a raised
\* exception: the hash is not added to the cache of that remote and the remote is
\* not recorded as missing the pointer in the report.
C1_NotFoundIsHardError ==
    \A p \in probes :
        p.status = 404 =>
            /\ exc = "HTTPError"
            /\ pc \in {"finally", "aborted"}
            /\ p.ptr.oid \notin DictGet(ok_lfs_cache, p.remote) \ DictGet(loaded, p.remote)
            /\ \A c \in Range(Commits) : p.remote \notin Range(Recorded(c, p.ptr))

\* C2: when the loop reaches a pair whose hash is in the cache of that remote,
\* the step it takes sends no verification request.
C2_CachedHashNotProbed ==
    [][(/\ pc = "loop"
        /\ idx <= Len(lfs_pointers)
        /\ lfs_pointers[idx].oid \in DictGet(ok_lfs_cache, remotes[ridx]))
       => (nreq' = nreq /\ pc' # "post" /\ probes' = probes)]_vars

\* C2 witness: a pair was skipped for a hash that was not loaded from disk but
\* added earlier in the same execution by another pointer with the same hash.
C2_Witness ==
    \E sk \in skipped :
        /\ lfs_pointers[sk[1]].oid \notin DictGet(loaded, sk[2])
        /\ \E j \in 1..(sk[1] - 1) :
               /\ lfs_pointers[j].oid = lfs_pointers[sk[1]].oid
               /\ lfs_pointers[j].name # lfs_pointers[sk[1]].name

\* C3: the step that handles a 200 answer leaves the hash in the in-memory cache
\* of that remote, with the loop back at the next pair, and leaves the report as
\* it was.
C3_OkIsCachedAtOnce ==
    [][(\E p \in Answered : p.status = 200)
       => (/\ \A p \in Answered : p.ptr.oid \in DictGet(ok_lfs_cache', p.remote)
           /\ pc' = "loop"
           /\ commits_missing_lfs' = commits_missing_lfs)]_vars

\* C3 witness: a 200 answer was handled for a hash the cache did not hold at start.
C3_Witness ==
    /\ pc = "loop"
    /\ \E p \in probes :
           /\ p.status = 200
           /\ p.ptr.oid \notin DictGet(loaded, p.remote)
           /\ p.ptr.oid \in DictGet(ok_lfs_cache, p.remote)

\* C4: after an execution that ran to completion, the next execution sends no
\* verification request for a (pointer, remote) pair the previous one confirmed
\* with 200.
C4_SecondRunSkipsConfirmed ==
    prev.outcome = "complete" =>
        /\ pc \in {"post", "commits"} => <<lfs_pointers[idx], remotes[ridx]>> \notin prev.ok200
        /\ \A p \in probes : <<p.ptr, p.remote>> \notin prev.ok200

\* C4 witness: the second execution is over and skipped a pair the first one
\* had confirmed.
C4_Witness ==
    /\ run = 2
    /\ prev.outcome = "complete"
    /\ pc = "done"
    /\ exc = "none"
    /\ \E sk \in skipped : <<lfs_pointers[sk[1]], sk[2]>> \in prev.ok200

\* C5: between two pairs and after the loop, the list recorded for a pointer
\* under each commit referencing it holds a remote exactly when that remote
\* answered a probe of that pointer with a status other than 200 and 404, and
\* holds it once.
C5_ReportExact ==
    (pc = "loop" \/ (pc \in {"report", "done"} /\ exc = "none")) =>
        \A ptr \in Range(lfs_pointers) :
            \A c \in Range(get_commits(ptr)) :
                \A r \in Range(remotes) :
                    Count(r, Recorded(c, ptr)) =
                        IF \E p \in probes :
                               p.ptr = ptr /\ p.remote = r /\ p.status \notin {200, 404}
                        THEN 1 ELSE 0

\* C6: after an operator cancel the loop is over and the script goes on through
\* the finally block to the report; the file then holds, for every remote,
\* every hash loaded at start and every hash confirmed with 200 before the
\* cancel, and the report printed is the one accumulated.
C6_CancelKeepsProgress ==
    exc = "KeyboardInterrupt" =>
        /\ pc \in {"finally", "report", "done"}
        /\ pc \in {"report", "done"} =>
               /\ dumped
               /\ ok_lfs_file.exists
               /\ \A r \in RemoteNames :
                      DictGet(loaded, r) \cup Confirmed(r) \subseteq OnDisk(r)
        /\ pc = "done" => printed.done /\ printed.report = commits_missing_lfs

\* C6 witness: a cancelled execution finished after a 200 answer and with a
\* non-empty report.
C6_Witness ==
    /\ exc = "KeyboardInterrupt"
    /\ pc = "done"
    /\ \E r \in Range(remotes) : Confirmed(r) \ DictGet(loaded, r) # {}
    /\ commits_missing_lfs # EmptyDict
    /\ idx <= Len(lfs_pointers)

\* C7 as stated: an execution ended by another exception leaves without the
\* cache file having been written.
C7_OtherExceptionSkipsDump ==
    pc = "aborted" => ~dumped

\* C7 amended: an execution ended by another exception still writes the cache
\* file in the finally block, with every hash confirmed before the exception,
\* and then leaves without printing the report.
C7_OtherExceptionStillDumps ==
    exc \notin {"none", "KeyboardInterrupt"} =>
        /\ pc \in {"finally", "aborted"}
        /\ ~printed.done
        /\ pc = "aborted" =>
               /\ dumped
               /\ ok_lfs_file.exists
               /\ \A r \in RemoteNames :
                      DictGet(loaded, r) \cup Confirmed(r) \subseteq OnDisk(r)

\* C7 witness: an execution aborted by a raised exception after a 200 answer
\* for a hash the file did not hold.
C7_Witness ==
    /\ pc = "aborted"
    /\ exc \in {"RequestException", "CalledProcessError"}
    /\ \E r \in Range(remotes) : Confirmed(r) \ DictGet(loaded, r) # {}

-----------------------------------------------------------------------------
(* Properties of the fetch runner (all-git.py), checked under FetchSpec *)

\* The number of times git fetch was started for repository i.
Started(i) ==
    Len(tasks[i].attempts) + (IF tasks[i].state = "running" THEN 1 ELSE 0)

FailureBlocks(i) ==
    Cardinality({k \in DOMAIN out : out[k].kind = "failure" /\ out[k].repo = i})

FetchOver == fpc \in {"done", "raised"}

\* C8: for every repository git fetch is started at most twice; it is started a
\* second time exactly when the first run exited non-zero, and once the task is
\* done or fetch is over it has been started at least once.
C8_RetryOnce ==
    \A i \in DOMAIN tasks :
        /\ Started(i) <= 2
        /\ Started(i) = 2 => tasks[i].attempts[1] # 0
        /\ (Len(tasks[i].attempts) >= 1 /\ tasks[i].attempts[1] # 0) => Started(i) = 2
        /\ (tasks[i].state = "done" \/ FetchOver) => Started(i) >= 1
        /\ tasks[i].state = "done" =>
               tasks[i].returncode = tasks[i].attempts[Len(tasks[i].attempts)]

\* C8 witness: fetch is over with one repository fetched once and another
\* fetched twice, the second run failing too.
C8_Witness ==
    /\ fpc = "done"
    /\ \E i, j \in DOMAIN tasks :
           /\ tasks[i].attempts = <<0>>
           /\ Len(tasks[j].attempts) = 2
           /\ tasks[j].attempts[2] # 0

\* C9: when fetch is over, every repository whose task is done has exactly one
\* failure block printed if its final exit status is non-zero and none otherwise.
C9_FailureBlockIffFinalNonZero ==
    FetchOver =>
        \A i \in DOMAIN tasks :
            tasks[i].state = "done" =>
                FailureBlocks(i) = IF tasks[i].returncode # 0 THEN 1 ELSE 0

\* C10: whatever the exit statuses and stderr contents, fetch does not raise.
C10_FetchNeverRaises ==
    fpc # "raised" /\ ferr = "none"

\* C11: whatever order the fetches finish in, everything fetch prints is in
\* enumeration order: nothing about repository i is printed before something
\* about a repository enumerated before it, and nothing about a repository is
\* printed before every earlier repository has been awaited and reported.
C11_ReportedInEnumerationOrder ==
    /\ \A k, l \in DOMAIN out : k < l => out[k].repo <= out[l].repo
    /\ \A k \in DOMAIN out :
           /\ out[k].repo <= fidx
           /\ out[k].kind # "banner" => tasks[out[k].repo].state = "done"
    /\ \A i \in DOMAIN tasks :
           (fpc = "await" /\ i < fidx) => tasks[i].state = "done"

\* C11 witness: a task finished before one created earlier, fetch is over, and
\* the failure blocks of both are printed in enumeration order.
C11_Witness ==
    /\ overtook
    /\ fpc = "done"
    /\ \E k, l \in DOMAIN out :
           /\ k < l
           /\ out[k].kind = "failure" /\ out[k].repo = 1
           /\ out[l].kind = "failure" /\ out[l].repo = 2

-----------------------------------------------------------------------------
(* Properties of the sequential runners, checked under SeqSpec *)

IsPrefix(s, t) == Len(s) <= Len(t) /\ SubSeq(t, 1, Len(s)) = s

\* C12: in log, gone and exec the git command runs at most once per repository,
\* in order; a non-zero exit status is the last command run and leaves the run
\* raised, so no later repository is queried; and what was printed stays printed.
C12_FirstFailureAborts ==
    /\ [](/\ \A k \in DOMAIN squeried : squeried[k].repo = k
          /\ \A k \in DOMAIN squeried :
                 squeried[k].returncode # 0 => (k = Len(squeried) /\ spc = "raised")
          /\ spc = "raised" => (/\ squeried # <<>>
                                /\ squeried[Len(squeried)].returncode # 0
                                /\ serr = "CalledProcessError")
          /\ spc = "done" => Len(squeried) = Len(srepos)
          /\ \A k \in DOMAIN sout : sout[k].repo <= Len(squeried))
    /\ [][/\ IsPrefix(sout, sout')
          /\ spc = "raised" => UNCHANGED <<sout, squeried, spc>>]_vars

\* C12 witness: the second repository's command failed after the first one's
\* output was printed, and that output is still there.
C12_Witness ==
    /\ spc = "raised"
    /\ Len(srepos) > Len(squeried)
    /\ Len(squeried) = 2
    /\ \E k \in DOMAIN sout : sout[k].repo = 1 /\ sout[k].kind = "text"

-----------------------------------------------------------------------------
(* Properties of the enumerator, checked under EnumSpec *)

\* C13: in whatever order the walk goes, once it is over the generator has
\* yielded one entry per directory holding a directory named .git, nothing for
\* a file named .git, nothing twice and nothing else; the entry of the working
\* directory, and only it, is an absolute path.
C13_OneEntryPerRepository ==
    /\ Cardinality(Range(yielded)) = Len(yielded)
    /\ Range(yielded) \subseteq
           {IF d = <<>> THEN CwdAbsolute ELSE d : d \in {e \in Dirs : gitkind[e] = "dir"}}
    /\ epc = "done" =>
           Range(yielded) =
               {IF d = <<>> THEN CwdAbsolute ELSE d : d \in {e \in Dirs : gitkind[e] = "dir"}}
    /\ \A k \in DOMAIN yielded :
           (yielded[k][1] = "/") <=> (yielded[k] = CwdAbsolute /\ gitkind[<<>>] = "dir")

\* C13 witness: the walk is over in a tree with the working directory and a
\* nested directory as repositories and a file named .git in a third one, the
\* nested one yielded first.
C13_Witness ==
    /\ epc = "done"
    /\ gitkind[<<>>] = "dir"
    /\ gitkind[<<"a", "c">>] = "dir"
    /\ gitkind[<<"b">>] = "file"
    /\ Len(yielded) >= 2
    /\ yielded[1] = <<"a", "c">>

-----------------------------------------------------------------------------
(* Further properties of the fetch runner, checked under FetchSpec *)

\* The report step of the await loop has run on the task of repository i.
Awaited(i) ==
    /\ fpc \in {"await", "done", "raised"}
    /\ tasks[i].state = "done"
    /\ i < fidx \/ (fpc = "raised" /\ i = fidx)

\* Some line of the text has a first whitespace-delimited token, and it is not
\* the word Fetching.
HasNonFetchingLine(text) ==
    \E k \in DOMAIN splitlines(text) :
        /\ split(splitlines(text)[k]) # <<>>
        /\ split(splitlines(text)[k])[1] # <<"Fetching">>

StderrDumps(i) ==
    Cardinality({k \in DOMAIN out : out[k].kind = "stderr" /\ out[k].repo = i})

\* C14: for every stderr text and every exit status, the report step prints the
\* whole stderr exactly when some line's first token is not Fetching, and goes
\* on to the next repository.
C14_StderrClassificationTotal ==
    \A i \in DOMAIN tasks :
        (Awaited(i) /\ Decodable(tasks[i].stderr)) =>
            /\ ~(fpc = "raised" /\ i = fidx)
            /\ StderrDumps(i) = IF HasNonFetchingLine(tasks[i].stderr) THEN 1 ELSE 0

\* C15: every task is created before fetch awaits or reports anything, and once
\* the event loop runs no task waits for another: a running fetch can return
\* (and be retried and return again) whatever the state of the other tasks,
\* and the task the await loop is waiting for holds back no repository
\* enumerated before it: those are all finished and announced.
C15_FanOutIndependent ==
    /\ fpc = "create" =>
           /\ out = <<>>
           /\ \A i \in DOMAIN tasks : tasks[i].state \in {"none", "created"}
    /\ fpc \in {"await", "done", "raised"} =>
           \A i \in DOMAIN tasks : tasks[i].state # "none"
    /\ fpc = "await" =>
           /\ \A i \in DOMAIN tasks :
                  (/\ tasks[i].state = "running"
                   /\ \A j \in DOMAIN tasks : tasks[j].state # "created")
                  => ENABLED ProcessExits(i)
           /\ \A i \in 1..(fidx - 1) :
                  /\ tasks[i].state = "done"
                  /\ \E k \in DOMAIN out : out[k] = Banner(i)

\* C15 witness: the first repository's first fetch is still running and not yet
\* reported, while the second repository's fetch and its retry have both
\* returned.
C15_Witness ==
    /\ fpc = "await"
    /\ fidx = 1
    /\ Len(tasks) >= 2
    /\ tasks[1].state = "running"
    /\ tasks[1].attempts = <<>>
    /\ tasks[2].state = "done"
    /\ Len(tasks[2].attempts) = 2

-----------------------------------------------------------------------------
(* Properties of the report and of the cache, checked under Spec *)

\* The names of the configured remotes.
Configured == {remotes[i] : i \in DOMAIN remotes}

\* C16: in the printed report every pointer recorded under a commit has one
\* line; the line carries the recorded remote names exactly when the set of
\* recorded remotes is not the set of all configured remotes, and carries no
\* annotation when the pointer is recorded for every configured remote. This
\* includes reports printed after a cancel between two remotes of a pointer.
C16_AnnotatedIffNotAllRemotes ==
    printed.done =>
        /\ DOMAIN printed.lines = DOMAIN printed.report
        /\ \A c \in DOMAIN printed.report :
               /\ DOMAIN printed.lines[c] = DOMAIN printed.report[c]
               /\ \A p \in DOMAIN printed.report[c] :
                      LET recorded == printed.report[c][p]
                          line     == printed.lines[c][p]
                      IN  /\ line.annotated <=> (Range(recorded) # Configured)
                          /\ line.annotated => line.names = recorded
                          /\ (\A r \in Configured : r \in Range(recorded))
                                 => ~line.annotated

\* C16 witness: the operator cancelled after the first remote of the second
\* pointer; the report printed has the first pointer without annotation and
\* the second pointer annotated with the first remote only.
C16_Witness ==
    /\ printed.done
    /\ exc = "KeyboardInterrupt"
    /\ idx = 2
    /\ ridx = 2
    /\ \E c \in DOMAIN printed.lines :
           \E p, q \in DOMAIN printed.lines[c] :
               /\ ~printed.lines[c][p].annotated
               /\ printed.lines[c][q].annotated
               /\ printed.lines[c][q].names = <<"A">>

\* C17: in every state of an execution the cache holds, for every remote, only
\* hashes loaded for that remote at start or confirmed with 200 by that remote
\* in this execution; and within an execution the cache changes only in a step
\* that handles a 200 answer, by exactly that remote's hash.
C17_CacheSound ==
    /\ [](\A r \in DOMAIN ok_lfs_cache :
              ok_lfs_cache[r] \subseteq DictGet(loaded, r) \cup Confirmed(r))
    /\ [][(ok_lfs_cache' # ok_lfs_cache /\ run' = run) =>
              /\ \E p \in Answered : p.status = 200
              /\ \A r \in RemoteNames :
                     DictGet(ok_lfs_cache', r) \ DictGet(ok_lfs_cache, r)
                         \subseteq {p.ptr.oid : p \in {q \in Answered : q.remote = r}}]_vars

\* C17 witness: an execution is over after an answer other than 200, whose
\* hash is not in that remote's cache, and after a 200 answer for a hash that
\* was not loaded and now is in the cache.
C17_Witness ==
    /\ pc \in {"done", "aborted"}
    /\ \E p \in probes :
           /\ p.status # 200
           /\ p.ptr.oid \notin DictGet(ok_lfs_cache, p.remote)
    /\ \E p \in probes :
           /\ p.status = 200
           /\ p.ptr.oid \notin DictGet(loaded, p.remote)
           /\ p.ptr.oid \in DictGet(ok_lfs_cache, p.remote)

\* C18: within an execution no step removes a hash or a remote from the cache;
\* and once the file has been rewritten it holds, for every remote named in the
\* file loaded at start, configured or not, every hash loaded for it.
C18_CacheMonotone ==
    /\ [][run' = run =>
              /\ DOMAIN ok_lfs_cache \subseteq DOMAIN ok_lfs_cache'
              /\ \A r \in DOMAIN ok_lfs_cache : ok_lfs_cache[r] \subseteq ok_lfs_cache'[r]]_vars
    /\ [](dumped =>
              /\ ok_lfs_file.exists
              /\ DOMAIN loaded \subseteq DOMAIN ok_lfs_file.data
              /\ \A r \in RemoteNames : DictGet(loaded, r) \subseteq OnDisk(r))

\* C18 witness: the file was rewritten; it still holds the hash loaded for a
\* remote that is no longer configured, and holds a hash more than was loaded
\* for some remote.
C18_Witness ==
    /\ dumped
    /\ DictGet(loaded, "old") # {}
    /\ "old" \notin Configured
    /\ DictGet(loaded, "old") \subseteq OnDisk("old")
    /\ \E r \in RemoteNames : OnDisk(r) \ DictGet(loaded, r) # {}

\* C19: the report is printed only in an execution whose loop ended normally or
\* by an operator cancel. An execution whose loop ended by another exception
\* leaves the finally block with the exception: it prints no report then or
\* later, and what it had accumulated is gone when the script is started again.
C19_AbortLosesReport ==
    /\ [](/\ printed.done => exc \in {"none", "KeyboardInterrupt"}
          /\ pc \in {"report", "done"} => exc \in {"none", "KeyboardInterrupt"}
          /\ pc = "aborted" =>
                 /\ exc \notin {"none", "KeyboardInterrupt"}
                 /\ dumped
                 /\ ~printed.done
                 /\ printed.lines = EmptyDict)
    /\ [][pc = "aborted" =>
              /\ pc' = "loop"
              /\ run' = run + 1
              /\ commits_missing_lfs' = EmptyDict
              /\ ~printed'.done]_vars

\* C19 witness: an execution aborted by a raised exception with missing
\* references accumulated and none printed.
C19_Witness ==
    /\ pc = "aborted"
    /\ exc \in {"RequestException", "CalledProcessError"}
    /\ commits_missing_lfs # EmptyDict
    /\ ~printed.done

====
